---- MODULE Spec2Model ----
(***************************************************************************)
(* Amoeba division simulation (amoeba_model.py): a toroidal SingleGrid, a  *)
(* RandomActivation scheduler, the seasonal Environment and the Amoeba     *)
(* state machine with its two-step division.                               *)
(*                                                                         *)
(* Python objects have an identity of their own: an Amoeba is modelled as  *)
(* an index into `agents` (allocation order) and unique_id is one of its   *)
(* fields.  One call of AmoebaDivisionModel.step() is the run              *)
(* StepBegin, Activate..., StepEnd; the order in which the pending agents  *)
(* of a pass are picked is the scheduler's random permutation.             *)
(***************************************************************************)
EXTENDS Integers, Sequences, FiniteSets, TLC

\* ------------------------------------------------------------------ bounds
MaxTicks == 13     \* calls of step() in the run of a year
MaxWidth == 4      \* the wider grids have a width of MinDim+1 .. MaxWidth
WideTicks == 5     \* calls of step() on the wider grids
DrawPoints == 2    \* values of each random range in the run with several
DrawTicks == 2     \* calls of step() in the run with several values
HostTicks == 5     \* calls of step() after the host's initialize

\* ------------------------------------------------------- program constants
MinDim == 2        \* np.random.randint(1, width) needs width >= 2
SeedId == 1        \* Amoeba(1, self)
FirstCurrentId == 0    \* mesa.Model.current_id before the first next_id()
MonthsPerYear == 12

VARIABLES
    width, height,     \* SingleGrid(width, height, True)
    sched,             \* how the installed scheduler keeps its agents
    agents,            \* every Amoeba object allocated so far
    grid,              \* cell -> agent object, 0 for an empty cell
    schedule,          \* the agent objects held by model.schedule
    current_id,        \* model.current_id (read by next_id)
    month, water_quality, temperature, temperature_description,
    steps,             \* model.schedule.steps
    data_collector,    \* model.data_collector
    pc,                \* "idle", or "pass" inside schedule.step()
    todo,              \* agents of the pass's shuffled buffer not yet yielded
    order,             \* agents activated in the current pass, in order
    born,              \* agents added to the schedule in the current pass
    calls,             \* calls of model.step() started
    raised,            \* the last call of model.step() ended with an exception
    month0,            \* the month given to the constructor
    requested,         \* calls of model.step() the callers will make
    points,            \* how many values of each random range are drawn
    setAt,             \* per agent: the call in which its division was started
    bornPrev,          \* agents added to the schedule in the previous call
    lastOp,            \* the branch of the code the last step went through
    was,               \* the state the agent activated last had before
    constructed,       \* AmoebaDivisionModel(...) returned a model
    pc2, todo2         \* pc and todo of a second request thread of app.py

vars == <<width, height, sched, agents, grid, schedule, current_id, month,
          water_quality, temperature, temperature_description, steps,
          data_collector, pc, todo, order, born, calls, raised, month0, setAt,
          bornPrev, lastOp, requested, points, was, constructed, pc2, todo2>>

\* -------------------------------------------------------------- the grid
NoPos == <<-1, -1>>
Cells == (0 .. width - 1) \X (0 .. height - 1)

IsCellEmpty(pos) == grid[pos] = 0

\* get_neighborhood(pos, moore=True, include_center=False) on a torus
GetNeighborhood(pos) ==
    { <<(pos[1] + dx) % width, (pos[2] + dy) % height>> :
          dx \in -1 .. 1, dy \in -1 .. 1 } \ {pos}

\* faulty variant: the neighbours are not filtered for emptiness
EmptyPositionsUnfiltered(pos) == GetNeighborhood(pos)

\* divide_if_possible, lines 72-73
EmptyPositions(pos) == { p \in GetNeighborhood(pos) : IsCellEmpty(p) }

\* ------------------------------------------------------- the environment
Winter == {12, 1, 2}
Summer == {6, 7, 8}

\* np.random.randint(lo, hi): an integer of lo .. hi-1, hi excluded
RandIntRange(lo, hi) == lo .. hi - 1

\* the values of the range that are explored: its lowest value and, from
\* the second point on, its highest ones
RandInt(lo, hi) == {lo} \cup { v \in RandIntRange(lo, hi) : v > hi - points }

\* adjust_water_quality: the arguments of randint for month m
WaterQualityBounds(m) ==
    IF m \in Winter THEN <<0, 50>>
    ELSE IF m \in Summer THEN <<50, 100>>
    ELSE <<75, 100>>

\* adjust_temperature: the arguments of randint for month m
TemperatureBounds(m) ==
    IF m \in Winter THEN <<-20, 10>>
    ELSE IF m \in Summer THEN <<30, 60>>
    ELSE <<15, 25>>

WaterQualityRange(m) == RandIntRange(WaterQualityBounds(m)[1], WaterQualityBounds(m)[2])
TemperatureRange(m) == RandIntRange(TemperatureBounds(m)[1], TemperatureBounds(m)[2])

WaterQualityDraws(m) == RandInt(WaterQualityBounds(m)[1], WaterQualityBounds(m)[2])
TemperatureDraws(m) == RandInt(TemperatureBounds(m)[1], TemperatureBounds(m)[2])

TemperatureDescription(m) ==
    IF m \in Winter THEN "sub-zero"
    ELSE IF m \in Summer THEN "extreme hot"
    ELSE "normal"

\* faulty variant: the temperature is left out of the encystment test
IsEncystmentConditionWaterOnly == water_quality < 50

IsEncystmentCondition ==
    water_quality < 50 \/ temperature_description \in {"sub-zero", "extreme hot"}

IsExcystmentCondition ==
    water_quality >= 50 /\ temperature_description = "normal"

\* faulty variant: the season is left out of the division test
IsDivConditionNoSeason == water_quality >= 50

IsDivCondition ==
    water_quality >= 50 /\ temperature_description = "normal"

\* faulty variant: the wrap is taken modulo 12, which yields month 0
IncrementMonthModulo(m) == (m + 1) % 12

IncrementMonth(m) == IF m = 12 THEN 1 ELSE m + 1

\* ------------------------------------------------------------ the agents
States == {"intact", "encysted", "excysted", "dividing", "divided", "stressed"}

NewAmoeba(id) ==
    [unique_id |-> id, state |-> "intact", pos |-> NoPos,
     dividing_next_step |-> FALSE, new_position |-> NoPos, new_amoeba |-> 0]

Objects == 1 .. Len(agents)

\* Amoeba.step, lines 45-48: the state after the encystment/excystment test
AfterConditions(a) ==
    IF IsEncystmentCondition THEN "encysted"
    ELSE IF IsExcystmentCondition /\ agents[a].state = "encysted" THEN "excysted"
    ELSE agents[a].state

\* faulty variant: a divided or stressed organism does not divide again
DivisionGateUndivided(a) ==
    /\ AfterConditions(a) \notin {"divided", "stressed"}
    /\ \/ AfterConditions(a) = "excysted"
       \/ IsDivCondition
       \/ agents[a].dividing_next_step

\* Amoeba.step, line 51
DivisionGate(a) ==
    \/ AfterConditions(a) = "excysted"
    \/ IsDivCondition
    \/ agents[a].dividing_next_step

\* ---------------------------------------------------------- the scheduler
\* RandomActivation comes from the installed mesa; its releases keep the
\* agents in three ways, and the program runs with each of them:
\*   by_id_raise    a dict keyed by unique_id, add() raises on a known id
\*   by_id_replace  a dict keyed by unique_id, add() overwrites a known id
\*   by_object      a set of agent objects, add() raises on a known object
Policies == {"by_id_raise", "by_id_replace", "by_object"}

SameId(a) == { b \in schedule : agents[b].unique_id = agents[a].unique_id }

\* schedule.add(agent) refuses the agent
AddRaises(a) == sched = "by_id_raise" /\ SameId(a) # {}

\* schedule.add(agent) when it does not raise
ScheduleAdd(a) ==
    IF sched = "by_id_replace" THEN (schedule \ SameId(a)) \cup {a}
    ELSE schedule \cup {a}

\* the agents a pass of schedule.step() will yield: those held when it begins
AgentBuffer == schedule

\* faulty variant: the pass walks the live registry, so an added agent joins it
BufferAfterAddLive(rest, a) == rest \cup {a}

\* what the running pass still has to yield after `a` was added meanwhile
BufferAfterAdd(rest, a) == rest

\* the agent yielded for buffer entry o
Yielded(o) ==
    IF sched = "by_object" THEN o
    ELSE CHOOSE b \in schedule : agents[b].unique_id = agents[o].unique_id

\* ------------------------------------------------------------ collect_data
\* faulty variant: the sums run over every Amoeba object ever created
CountStateAllocated(s) == Cardinality({ a \in Objects : agents[a].state = s })

CountState(s) == Cardinality({ a \in schedule : agents[a].state = s })

CollectData(stp, wq, temp, m) ==
    [step |-> stp,
     intact |-> CountState("intact"),
     dividing |-> CountState("dividing"),
     divided |-> CountState("divided"),
     encysted |-> CountState("encysted"),
     excysted |-> CountState("excysted"),
     stressed |-> CountState("stressed"),
     water_quality |-> wq, temperature |-> temp, month |-> m]

\* ------------------------------------------------------------------- Init
\* the constructor is given a width or a height below MinDim
SmallGrids ==
    /\ \/ width \in 0 .. MinDim - 1 /\ height \in 1 .. MinDim
       \/ width = MinDim /\ height \in 0 .. MinDim - 1
    /\ month \in 1 .. MonthsPerYear
    /\ points = 1
    /\ requested = DrawTicks

\* app.py, initialize (lines 62-66): the month is int(request.json['month']),
\* any integer, passed on as it is; here 1 .. 12 and the two integers next
\* to them.  The smallest grid stands for the host's grid of 10 x 10.
HostInitialize ==
    /\ width = MinDim
    /\ height = MinDim
    /\ month \in 0 .. MonthsPerYear + 1
    /\ points = 1
    /\ requested = HostTicks

\* lines 227-228: np.random.randint(1, n) raises ValueError unless 1 < n
Constructs == width >= MinDim /\ height >= MinDim

\* the runs explored: a year on the smallest grid, a few ticks on the wider
\* grids (one value per draw in both), and a few ticks on the smallest grid
\* with DrawPoints values per draw
Runs ==
    \/ /\ width = MinDim
       /\ height = MinDim
       /\ month \in 1 .. MonthsPerYear
       /\ points = 1
       /\ requested = MaxTicks
    \/ /\ width \in MinDim + 1 .. MaxWidth
       /\ height = MinDim
       /\ month \in 1 .. MonthsPerYear
       /\ points = 1
       /\ requested = WideTicks
    \/ /\ width = MinDim
       /\ height = MinDim
       /\ month \in 1 .. MonthsPerYear
       /\ points = DrawPoints
       /\ requested = DrawTicks
    \/ SmallGrids
    \/ HostInitialize

Init ==
    /\ Runs
    /\ sched \in Policies
    /\ month0 = month
    /\ water_quality \in WaterQualityDraws(month)
    /\ temperature \in TemperatureDraws(month)
    /\ temperature_description = TemperatureDescription(month)
    /\ constructed = Constructs
    /\ IF Constructs
       THEN /\ \E x \in 1 .. width - 1, y \in 1 .. height - 1 :
                  /\ agents = << [NewAmoeba(SeedId) EXCEPT !.pos = <<x, y>>] >>
                  /\ grid = [c \in Cells |-> IF c = <<x, y>> THEN 1 ELSE 0]
            /\ schedule = {1}
       ELSE /\ agents = << NewAmoeba(SeedId) >>
            /\ grid = [c \in Cells |-> 0]
            /\ schedule = {}
    /\ current_id = FirstCurrentId
    /\ steps = 0
    /\ data_collector = << >>
    /\ pc = "idle"
    /\ todo = {}
    /\ order = << >>
    /\ born = {}
    /\ calls = 0
    /\ raised = FALSE
    /\ setAt = << 0 >>
    /\ bornPrev = {}
    /\ lastOp = "init"
    /\ was = "none"
    /\ pc2 = "idle"
    /\ todo2 = {}

\* ---------------------------------------------------------------- actions
envVars == <<month, water_quality, temperature, temperature_description,
             steps, data_collector>>
params == <<width, height, sched, month0, requested, points, constructed>>
fixed == <<params, pc2, todo2>>

\* model.step() is called: schedule.step() takes its buffer
StepBegin ==
    /\ constructed
    /\ pc = "idle"
    /\ calls < requested
    /\ pc' = "pass"
    /\ todo' = AgentBuffer
    /\ order' = << >>
    /\ bornPrev' = born
    /\ born' = {}
    /\ calls' = calls + 1
    /\ raised' = FALSE
    /\ lastOp' = "begin"
    /\ UNCHANGED <<agents, grid, schedule, current_id, setAt, was, envVars, fixed>>

\* ----- Amoeba.step() of agent a: what each branch does to the program state
\* step() that leaves divide_if_possible out, or takes neither of its branches
RestStep(a) ==
    /\ ~ DivisionGate(a) \/ (~ agents[a].dividing_next_step /\ ~ IsDivCondition)
    /\ agents' = [agents EXCEPT ![a].state = AfterConditions(a)]
    /\ UNCHANGED <<grid, schedule, current_id, setAt>>

\* faulty variant: the child is placed and registered when the division starts
InitiateStepPlacing(a) ==
    /\ DivisionGate(a)
    /\ ~ agents[a].dividing_next_step
    /\ IsDivCondition
    /\ EmptyPositions(agents[a].pos) # {}
    /\ \E p \in EmptyPositions(agents[a].pos) :
          /\ agents' = Append([agents EXCEPT ![a].state = "dividing",
                                             ![a].new_position = p,
                                             ![a].new_amoeba = Len(agents) + 1,
                                             ![a].dividing_next_step = TRUE],
                              [NewAmoeba(current_id + 1) EXCEPT !.pos = p])
          /\ grid' = [grid EXCEPT ![p] = Len(agents) + 1]
    /\ schedule' = schedule \cup {Len(agents) + 1}
    /\ current_id' = current_id + 1
    /\ setAt' = Append([setAt EXCEPT ![a] = calls], 0)

\* divide_if_possible, lines 68-78: a division is started
InitiateStep(a) ==
    /\ DivisionGate(a)
    /\ ~ agents[a].dividing_next_step
    /\ IsDivCondition
    /\ EmptyPositions(agents[a].pos) # {}
    /\ \E p \in EmptyPositions(agents[a].pos) :
          agents' = Append([agents EXCEPT ![a].state = "dividing",
                                          ![a].new_position = p,
                                          ![a].new_amoeba = Len(agents) + 1,
                                          ![a].dividing_next_step = TRUE],
                           NewAmoeba(current_id + 1))
    /\ current_id' = current_id + 1
    /\ setAt' = Append([setAt EXCEPT ![a] = calls], 0)
    /\ UNCHANGED <<grid, schedule>>

\* divide_if_possible, lines 79-80: no empty neighbour
NoRoomStep(a) ==
    /\ DivisionGate(a)
    /\ ~ agents[a].dividing_next_step
    /\ IsDivCondition
    /\ EmptyPositions(agents[a].pos) = {}
    /\ agents' = [agents EXCEPT ![a].state = "stressed"]
    /\ UNCHANGED <<grid, schedule, current_id, setAt>>

\* the state of the parent whose division is completed, line 64
CommittedState == "divided"

\* divide_if_possible, lines 60-64 and 67: the division is completed
CommitStep(a) ==
    LET c == agents[a].new_amoeba
        p == agents[a].new_position
    IN  /\ agents[a].dividing_next_step
        /\ IsCellEmpty(p)
        /\ ~ AddRaises(c)
        /\ grid' = [grid EXCEPT ![p] = c]
        /\ schedule' = ScheduleAdd(c)
        /\ agents' = [agents EXCEPT ![c].pos = p,
                                    ![c].state = "intact",
                                    ![a].state = CommittedState,
                                    ![a].dividing_next_step = FALSE]
        /\ UNCHANGED <<current_id, setAt>>

\* divide_if_possible, lines 60-62: place_agent, then schedule.add raises
CommitRaisesStep(a) ==
    LET c == agents[a].new_amoeba
        p == agents[a].new_position
    IN  /\ agents[a].dividing_next_step
        /\ IsCellEmpty(p)
        /\ AddRaises(c)
        /\ grid' = [grid EXCEPT ![p] = c]
        /\ agents' = [agents EXCEPT ![c].pos = p,
                                    ![a].state = AfterConditions(a)]
        /\ UNCHANGED <<schedule, current_id, setAt>>

\* faulty variant: a collision leaves the parent dividing
CollidedStateDividing == "dividing"

\* the state of the parent whose recorded cell was taken, line 66
CollidedState == "stressed"

\* faulty variant: line 67 belongs to the branch of line 60 only
CollideStepKeepsFlag(a) ==
    /\ agents[a].dividing_next_step
    /\ ~ IsCellEmpty(agents[a].new_position)
    /\ agents' = [agents EXCEPT ![a].state = CollidedState]
    /\ UNCHANGED <<grid, schedule, current_id, setAt>>

\* divide_if_possible, lines 65-67: the recorded cell is taken
CollideStep(a) ==
    /\ agents[a].dividing_next_step
    /\ ~ IsCellEmpty(agents[a].new_position)
    /\ agents' = [agents EXCEPT ![a].state = CollidedState,
                                ![a].dividing_next_step = FALSE]
    /\ UNCHANGED <<grid, schedule, current_id, setAt>>

\* ----- the pass of schedule.step()
\* the pass yields buffer entry o, agent a
Yield(o, a) ==
    /\ pc = "pass"
    /\ o \in todo
    /\ a = Yielded(o)
    /\ order' = Append(order, a)
    /\ was' = agents[a].state

Rest(o, a) ==
    /\ Yield(o, a)
    /\ RestStep(a)
    /\ todo' = todo \ {o}
    /\ lastOp' = "rest"
    /\ UNCHANGED <<pc, born, bornPrev, calls, raised, envVars, fixed>>

Initiate(o, a) ==
    /\ Yield(o, a)
    /\ InitiateStep(a)
    /\ todo' = todo \ {o}
    /\ lastOp' = "initiate"
    /\ UNCHANGED <<pc, born, bornPrev, calls, raised, envVars, fixed>>

NoRoom(o, a) ==
    /\ Yield(o, a)
    /\ NoRoomStep(a)
    /\ todo' = todo \ {o}
    /\ lastOp' = "noroom"
    /\ UNCHANGED <<pc, born, bornPrev, calls, raised, envVars, fixed>>

Commit(o, a) ==
    /\ Yield(o, a)
    /\ CommitStep(a)
    /\ born' = born \cup {agents[a].new_amoeba}
    /\ todo' = BufferAfterAdd(todo \ {o}, agents[a].new_amoeba)
    /\ lastOp' = "commit"
    /\ UNCHANGED <<pc, bornPrev, calls, raised, envVars, fixed>>

\* the exception of schedule.add leaves schedule.step() and model.step()
CommitRaises(o, a) ==
    /\ Yield(o, a)
    /\ CommitRaisesStep(a)
    /\ pc' = "idle"
    /\ todo' = {}
    /\ raised' = TRUE
    /\ lastOp' = "raise"
    /\ UNCHANGED <<born, bornPrev, calls, envVars, fixed>>

Collide(o, a) ==
    /\ Yield(o, a)
    /\ CollideStep(a)
    /\ todo' = todo \ {o}
    /\ lastOp' = "collide"
    /\ UNCHANGED <<pc, born, bornPrev, calls, raised, envVars, fixed>>

\* model.step(), lines 235-241, after the last agent of the pass
StepEnd ==
    /\ pc = "pass"
    /\ todo = {}
    /\ steps' = steps + 1
    /\ water_quality' \in WaterQualityDraws(month)
    /\ temperature' \in TemperatureDraws(month)
    /\ temperature_description' = TemperatureDescription(month)
    /\ month' = IncrementMonth(month)
    /\ data_collector' = Append(data_collector,
                                CollectData(steps', water_quality',
                                            temperature', month'))
    /\ pc' = "idle"
    /\ lastOp' = "end"
    /\ UNCHANGED <<agents, grid, schedule, current_id, todo, order, born,
                   bornPrev, calls, raised, setAt, was, fixed>>

Next ==
    \/ StepBegin
    \/ \E o \in todo : \E a \in Objects : Rest(o, a)
    \/ \E o \in todo : \E a \in Objects : Initiate(o, a)
    \/ \E o \in todo : \E a \in Objects : NoRoom(o, a)
    \/ \E o \in todo : \E a \in Objects : Commit(o, a)
    \/ \E o \in todo : \E a \in Objects : CommitRaises(o, a)
    \/ \E o \in todo : \E a \in Objects : Collide(o, a)
    \/ StepEnd

Spec == Init /\ [][Next]_vars

\* ------------------------------------------------------------ the host
\* app.py serves each request on a thread of its own and run() (lines 78-81)
\* takes no lock before run_simulation(model, steps): a second request
\* calls model.step() on the same model whatever the first one is doing.
\* Threads are switched between the activations of a pass; the second
\* request asks for one step and is "done" after it.
SecondBegin ==
    /\ constructed
    /\ pc2 = "idle"
    /\ calls < requested
    /\ pc2' = "pass"
    /\ todo2' = AgentBuffer
    /\ calls' = calls + 1
    /\ UNCHANGED <<agents, grid, schedule, current_id, setAt, pc, todo, order,
                   born, bornPrev, raised, lastOp, was, envVars, params>>

\* the second thread's pass yields buffer entry o, agent a
SecondActivate(o, a) ==
    /\ pc2 = "pass"
    /\ o \in todo2
    /\ a = Yielded(o)
    /\ \/ /\ RestStep(a) \/ InitiateStep(a) \/ NoRoomStep(a) \/ CollideStep(a)
          /\ todo2' = todo2 \ {o}
          /\ pc2' = pc2
       \/ /\ CommitStep(a)
          /\ todo2' = BufferAfterAdd(todo2 \ {o}, agents[a].new_amoeba)
          /\ pc2' = pc2
       \/ /\ CommitRaisesStep(a)
          /\ todo2' = {}
          /\ pc2' = "done"
    /\ UNCHANGED <<pc, todo, order, born, bornPrev, calls, raised, lastOp, was,
                   envVars, params>>

\* the second thread's model.step() after its pass, lines 235-241
SecondEnd ==
    /\ pc2 = "pass"
    /\ todo2 = {}
    /\ steps' = steps + 1
    /\ water_quality' \in WaterQualityDraws(month)
    /\ temperature' \in TemperatureDraws(month)
    /\ temperature_description' = TemperatureDescription(month)
    /\ month' = IncrementMonth(month)
    /\ data_collector' = Append(data_collector,
                                CollectData(steps', water_quality',
                                            temperature', month'))
    /\ pc2' = "done"
    /\ UNCHANGED <<agents, grid, schedule, current_id, setAt, pc, todo, todo2,
                   order, born, bornPrev, calls, raised, lastOp, was, params>>

\* the model behind app.py: built by initialize, run by two request threads
InitHost == Init /\ HostInitialize

NextHost ==
    \/ Next
    \/ SecondBegin
    \/ \E o \in todo2 : \E a \in Objects : SecondActivate(o, a)
    \/ SecondEnd

SpecHost == InitHost /\ [][NextHost]_vars

\* ------------------------------------------------------------------ claims
Range(seq) == { seq[i] : i \in 1 .. Len(seq) }
Placed == { a \in Objects : agents[a].pos # NoPos }

\* this step is the activation of agent a
Activated(a) ==
    /\ pc = "pass"
    /\ Len(order') = Len(order) + 1
    /\ order'[Len(order')] = a

\* C1: between ticks every cell holds at most one organism, every occupied
\* cell holds a registered organism and every registered organism occupies
\* exactly one cell.
OccupancyInvariant ==
    pc = "idle" =>
        /\ \A a, b \in Placed : agents[a].pos = agents[b].pos => a = b
        /\ \A c \in Cells : grid[c] # 0 =>
              grid[c] \in schedule /\ agents[grid[c]].pos = c
        /\ \A a \in schedule : agents[a].pos \in Cells /\ grid[agents[a].pos] = a

\* C2: an organism registered during a pass is not activated in that pass,
\* and every organism registered in the previous call is activated in this one.
TickBirthOrdering ==
    /\ Range(order) \cap born = {}
    /\ (pc = "idle" /\ ~ raised) => bornPrev \subseteq Range(order)

TickBirthWitness ==
    pc = "idle" /\ ~ raised /\ bornPrev # {} /\ bornPrev \subseteq Range(order)

\* C3: no two organisms, registered or allocated for a pending division,
\* carry the same identifier.
UniqueIdentifiers ==
    \A a, b \in Objects : agents[a].unique_id = agents[b].unique_id => a = b

\* C4: the activation of an organism with a pending division whose recorded
\* cell is empty places the child there, registers it as intact, leaves the
\* parent divided with no pending division, and grows the registry by one.
DivisionCommit ==
    [][ \A a \in Objects :
          (Activated(a) /\ agents[a].dividing_next_step
                        /\ IsCellEmpty(agents[a].new_position))
          => LET c == agents[a].new_amoeba
                 p == agents[a].new_position
             IN  /\ grid'[p] = c
                 /\ c \in schedule'
                 /\ agents'[c].state = "intact"
                 /\ agents'[a].state = "divided"
                 /\ ~ agents'[a].dividing_next_step
                 /\ Cardinality(schedule') = Cardinality(schedule) + 1 ]_vars

\* C5: the activation of an organism with a pending division whose recorded
\* cell is taken leaves the parent stressed with no pending division, the
\* registry and the grid unchanged, and raises nothing.
DivisionCollision ==
    [][ \A a \in Objects :
          (Activated(a) /\ agents[a].dividing_next_step
                        /\ ~ IsCellEmpty(agents[a].new_position))
          => /\ agents'[a].state = "stressed"
             /\ ~ agents'[a].dividing_next_step
             /\ schedule' = schedule
             /\ grid' = grid
             /\ ~ raised'
             /\ pc' = "pass" ]_vars

\* the parent just activated found its cell taken by another parent's child
DivisionCollisionWitness ==
    LET a == order[Len(order)]
    IN  /\ lastOp = "collide"
        /\ agents[a].state = "stressed"
        /\ grid[agents[a].new_position] \notin {0, agents[a].new_amoeba}
        /\ agents[agents[a].new_amoeba].pos = NoPos

\* C6: a pending division started in call T is resolved by the end of call
\* T+1: between ticks, every pending division was started in the call that
\* just ended.
PendingOneTick ==
    pc = "idle" =>
        \A a \in Objects : agents[a].dividing_next_step => setAt[a] = calls

\* every cell of the toroidal Moore neighbourhood of pos holds an organism
MooreOccupied(pos) ==
    \A dx, dy \in -1 .. 1 :
        LET q == <<(pos[1] + dx + width) % width, (pos[2] + dy + height) % height>>
        IN  q # pos => grid[q] # 0

\* C7: an organism without a pending division, activated under the division
\* condition with every Moore neighbour occupied, becomes stressed and
\* creates neither a pending division nor a child identifier.
FullNeighbourhoodStressed ==
    [][ \A a \in Objects :
          (Activated(a) /\ ~ agents[a].dividing_next_step /\ IsDivCondition
                        /\ MooreOccupied(agents[a].pos))
          => /\ agents'[a].state = "stressed"
             /\ ~ agents'[a].dividing_next_step
             /\ Len(agents') = Len(agents)
             /\ current_id' = current_id ]_vars

FullNeighbourhoodWitness ==
    /\ lastOp = "noroom"
    /\ MooreOccupied(agents[order[Len(order)]].pos)
    /\ agents[order[Len(order)]].state = "stressed"

\* C8: an organism without a pending division, activated under the
\* encystment condition, becomes encysted whatever its state was and starts
\* no division.
EncystmentPriority ==
    [][ \A a \in Objects :
          (Activated(a) /\ ~ agents[a].dividing_next_step
                        /\ (water_quality < 50
                            \/ temperature_description # "normal"))
          => /\ agents'[a].state = "encysted"
             /\ ~ agents'[a].dividing_next_step
             /\ Len(agents') = Len(agents)
             /\ current_id' = current_id ]_vars

\* no registered organism was encysted when the last record was taken, and
\* the organism just activated is encysted now
EncystmentWitness ==
    /\ lastOp = "rest"
    /\ Len(data_collector) > 0
    /\ data_collector[Len(data_collector)].encysted = 0
    /\ data_collector[Len(data_collector)].divided > 0
    /\ agents[order[Len(order)]].state = "encysted"

\* C9: after construction and after every tick the stored conditions are
\* those of the stored month's season, and so are those of every record.
ConditionsOfStoredMonth ==
    pc = "idle" =>
        /\ water_quality \in WaterQualityRange(month)
        /\ temperature \in TemperatureRange(month)
        /\ temperature_description = TemperatureDescription(month)
        /\ \A r \in Range(data_collector) :
              /\ r.water_quality \in WaterQualityRange(r.month)
              /\ r.temperature \in TemperatureRange(r.month)

\* C10: from a starting month in 1..12 the month stays in 1..12, advances by
\* one modulo 12 at each advance, and is the starting month again after 12
\* advances.
MonthCyclicity ==
    month0 \in 1 .. 12 =>
        /\ month \in 1 .. 12
        /\ month = ((month0 - 1 + steps) % 12) + 1
        /\ steps = 12 => month = month0
        /\ \A i \in 1 .. Len(data_collector) :
              data_collector[i].month = ((month0 - 1 + i) % 12) + 1

MonthCyclicityWitness == steps = 12 /\ month = month0 /\ month0 = 12

\* the six state counts of a record, added up
CountSum(r) ==
    r.intact + r.dividing + r.divided + r.encysted + r.excysted + r.stressed

LastRecord == data_collector[Len(data_collector)]

\* C11: the six state counts of a record add up to the number of organisms
\* registered when the record is appended, so every registered organism is
\* counted in exactly one of the six states.
MetricsCompleteness ==
    lastOp = "end" =>
        /\ CountSum(LastRecord) = Cardinality(schedule)
        /\ \A a \in schedule : agents[a].state \in States

\* a record taken of organisms in three states, next to a child that was
\* created and never registered
MetricsCompletenessWitness ==
    /\ lastOp = "end"
    /\ Cardinality(schedule) >= 3
    /\ LastRecord.divided > 0
    /\ LastRecord.intact > 0
    /\ LastRecord.stressed > 0
    /\ CountSum(LastRecord) = Cardinality(schedule)
    /\ Len(agents) > Cardinality(schedule)

\* C12: after k calls of step() the log holds k records, the i-th record
\* carries tick index i, the record of a tick is appended once, after its
\* pass and its environment advance, and earlier records are left as they are.
MetricsLogAppendOnly ==
    [][ /\ Len(data_collector') >= Len(data_collector)
        /\ \A i \in 1 .. Len(data_collector) :
              data_collector'[i] = data_collector[i]
        /\ \A i \in 1 .. Len(data_collector') : data_collector'[i].step = i
        /\ Len(data_collector') # Len(data_collector)
              => /\ Len(data_collector') = Len(data_collector) + 1
                 /\ pc = "pass" /\ todo = {} /\ pc' = "idle"
                 /\ month' = IncrementMonth(month)
        /\ pc' = "idle" => Len(data_collector') = calls' ]_vars

\* C13: the constructor returns a model for every width >= 1, height >= 1
\* and month in 1..12, with one registered organism, intact, without a
\* pending division, on a cell of the grid, and an empty log.
ConstructionSucceeds ==
    (lastOp = "init" /\ width >= 1 /\ height >= 1 /\ month0 \in 1 .. 12) =>
        /\ constructed
        /\ Cardinality(schedule) = 1
        /\ \A a \in schedule :
              /\ agents[a].state = "intact"
              /\ ~ agents[a].dividing_next_step
              /\ agents[a].pos \in Cells
              /\ grid[agents[a].pos] = a
        /\ data_collector = << >>

\* C14: a model is returned only for width >= 1, height >= 1 and a month in
\* 1..12, and the month of a model stays in 1..12.
InvalidConfigRejected ==
    constructed =>
        /\ width >= 1
        /\ height >= 1
        /\ month0 \in 1 .. 12
        /\ month \in 1 .. 12

\* C15: at most one call of model.step() is in flight on the shared model:
\* a pass, the environment advance and the append of one call are over
\* before another call begins.
SingleWriter == ~ (pc = "pass" /\ pc2 = "pass")

\* C16: no registration or activation takes an organism out of the registry,
\* no organism is activated twice in a pass, and at the end of a pass the
\* organisms activated are those registered when it began.
ExactlyOnceActivation ==
    [][ /\ schedule \subseteq schedule'
        /\ \A i, j \in 1 .. Len(order') : order'[i] = order'[j] => i = j
        /\ (pc = "pass" /\ pc' = "idle" /\ ~ raised')
              => Range(order') = schedule' \ born' ]_vars

\* C17 as stated: a divided or stressed organism without a pending division,
\* activated while the encystment condition does not hold, keeps its state.
StableDividedStressed ==
    [][ \A a \in Objects :
          (Activated(a) /\ ~ agents[a].dividing_next_step
                        /\ agents[a].state \in {"divided", "stressed"}
                        /\ ~ IsEncystmentCondition)
          => agents'[a].state = agents[a].state ]_vars

\* C17: a divided or stressed organism without a pending division becomes
\* encysted when activated under the encystment condition; otherwise it
\* goes through the division protocol again: it is dividing, with a pending
\* division, if a Moore neighbour cell is empty, and stressed if none is.
DividedStressedDivideAgain ==
    [][ \A a \in Objects :
          (Activated(a) /\ ~ agents[a].dividing_next_step
                        /\ agents[a].state \in {"divided", "stressed"})
          => IF IsEncystmentCondition
             THEN agents'[a].state = "encysted"
                  /\ ~ agents'[a].dividing_next_step
             ELSE IF MooreOccupied(agents[a].pos)
             THEN agents'[a].state = "stressed"
                  /\ ~ agents'[a].dividing_next_step
             ELSE agents'[a].state = "dividing"
                  /\ agents'[a].dividing_next_step ]_vars

\* a divided organism has just started its next division
DividedStressedWitness ==
    /\ lastOp = "initiate"
    /\ was = "divided"
    /\ agents[order[Len(order)]].state = "dividing"
    /\ agents[order[Len(order)]].dividing_next_step

\* the cells at distance 1 of pos on the torus
MooreCells(pos) ==
    { <<(pos[1] + dx + width) % width, (pos[2] + dy + height) % height>> :
          dx \in -1 .. 1, dy \in -1 .. 1 } \ {pos}

\* C18: the activation that starts a division changes neither the grid nor
\* the registry; the recorded cell is an empty cell of the parent's toroidal
\* Moore neighbourhood; the child of a pending division is not registered,
\* so that no record counts it.
PhaseOneFrame ==
    [][ /\ \A a \in Objects :
              (Activated(a) /\ ~ agents[a].dividing_next_step
                            /\ agents'[a].dividing_next_step)
              => /\ grid' = grid
                 /\ schedule' = schedule
                 /\ agents'[a].state = "dividing"
                 /\ agents'[a].new_position \in MooreCells(agents[a].pos)
                 /\ grid[agents'[a].new_position] = 0
                 /\ agents'[a].new_amoeba \notin Objects
                 /\ agents'[agents'[a].new_amoeba].pos = NoPos
                 /\ \A b \in Objects : b # a => agents'[b] = agents[b]
        /\ \A a \in 1 .. Len(agents') :
              agents'[a].dividing_next_step
              => agents'[a].new_amoeba \notin schedule'
        /\ lastOp' = "end" =>
              CountSum(data_collector'[Len(data_collector')])
                  = Cardinality(schedule') ]_vars

\* a record was taken while a registered organism held a pending division
\* whose child is neither placed nor registered
PhaseOneWitness ==
    /\ lastOp = "end"
    /\ Cardinality(schedule) >= 2
    /\ \E a \in schedule :
          /\ agents[a].dividing_next_step
          /\ agents[a].new_amoeba \notin schedule
          /\ agents[agents[a].new_amoeba].pos = NoPos
          /\ agents[a].state = "dividing"
    /\ CountSum(LastRecord) = Cardinality(schedule)
    /\ Len(agents) > Cardinality(schedule)

\* C19: between activations an organism is dividing exactly when it holds a
\* pending division, and the dividing count of a record is the number of
\* registered organisms that hold one.
DividingIffPending ==
    /\ \A a \in Objects :
          agents[a].state = "dividing" <=> agents[a].dividing_next_step
    /\ lastOp = "end" =>
          LastRecord.dividing
              = Cardinality({ a \in schedule : agents[a].dividing_next_step })

\* a record counts two pending divisions started in the call it ends, the
\* last of them by an organism that was divided or stressed before
DividingIffPendingWitness ==
    /\ lastOp = "end"
    /\ LastRecord.dividing >= 2
    /\ LastRecord.dividing
          = Cardinality({ a \in schedule : agents[a].dividing_next_step })
    /\ \E i \in 1 .. Len(order) :
          /\ agents[order[i]].state = "dividing"
          /\ setAt[order[i]] = calls
    /\ was \in {"stressed", "divided"}

\* C20: the encystment and the division condition are complements; no
\* organism is excysted between activations, an organism that was activated
\* is not intact, no record counts an excysted organism and the intact
\* count of a record is the number of children registered in its tick.
ComplementaryConditions ==
    /\ IsEncystmentCondition <=> ~ IsDivCondition
    /\ \A a \in Objects : agents[a].state # "excysted"
    /\ \A a \in Range(order) : agents[a].state # "intact"
    /\ \A r \in Range(data_collector) : r.excysted = 0
    /\ lastOp = "end" => LastRecord.intact = Cardinality(born)

\* an organism that was encysted has been activated under the division
\* condition, and a record was taken in a tick that registered a child
ComplementaryConditionsWitness ==
    /\ lastOp = "end"
    /\ born # {}
    /\ LastRecord.intact = Cardinality(born)
    /\ \E r \in Range(data_collector) : r.encysted > 0
    /\ \E a \in schedule : agents[a].state = "divided"

====
